---- MODULE Spec2Model ----
(***************************************************************************)
(* Model of src/src/handlers/sqs-handlers.ts: the SQS batch consumer       *)
(* sqsHandler, its per-record async tasks, and the queue that delivers     *)
(* batches to it (at-least-once, dead-letter path after MaxReceive         *)
(* deliveries).                                                            *)
(*                                                                         *)
(* Granularity follows the JavaScript run-to-completion rule: code between *)
(* two awaits is one atomic step.  A handler invocation therefore runs     *)
(* lines 12-21 and the synchronous part of every callback of               *)
(* event.Records.map in one step (Invoke); each callback that reached an   *)
(* await is resumed later in an order chosen by the event loop             *)
(* (ResumeTask); when every callback has settled Promise.allSettled        *)
(* resolves and lines 47-52 run (Report, Raise, Return).                   *)
(***************************************************************************)
EXTENDS Integers, Sequences, FiniteSets, TLC

\* ---- bounds -------------------------------------------------------------
NumMsgs == 3          \* messages in the queue
NumInvs == 2          \* handler invocations that can be in flight together
MaxReceive == 2       \* N: deliveries before the dead-letter path

Msgs == 1..NumMsgs
Invs == 1..NumInvs

Undefined == "undefined"

\* ---- message bodies and JSON.parse ---------------------------------------
\* The raw record bodies the model feeds to the handler.
Bodies ==
  { "{bad",
    "null",
    "{}",
    "{\"type\":\"OTHER\",\"data\":\"x\"}",
    "{\"type\":\"PROCESS_ORDER\",\"data\":\"o1\"}",
    "{\"type\":\"PROCESS_ORDER\",\"data\":\"o2\"}",
    "{\"type\":\"SEND_EMAIL\",\"data\":\"e1\"}" }

\* Variant: the JSON null is read as an object without members.
JSONparseNullAsObject(s) ==
  CASE s = "null" \/ s = "{}" ->
         [ok |-> TRUE, isNull |-> FALSE, type |-> Undefined, data |-> Undefined]
    [] s = "{\"type\":\"OTHER\",\"data\":\"x\"}" ->
         [ok |-> TRUE, isNull |-> FALSE, type |-> "OTHER", data |-> "x"]
    [] s = "{\"type\":\"PROCESS_ORDER\",\"data\":\"o1\"}" ->
         [ok |-> TRUE, isNull |-> FALSE, type |-> "PROCESS_ORDER", data |-> "o1"]
    [] s = "{\"type\":\"PROCESS_ORDER\",\"data\":\"o2\"}" ->
         [ok |-> TRUE, isNull |-> FALSE, type |-> "PROCESS_ORDER", data |-> "o2"]
    [] s = "{\"type\":\"SEND_EMAIL\",\"data\":\"e1\"}" ->
         [ok |-> TRUE, isNull |-> FALSE, type |-> "SEND_EMAIL", data |-> "e1"]
    [] OTHER ->
         [ok |-> FALSE, isNull |-> FALSE, type |-> Undefined, data |-> Undefined]

\* JSON.parse(record.body): either throws a SyntaxError (ok = FALSE) or yields
\* a value, which is the JSON null (isNull) or an object; an absent member of
\* an object reads as undefined.
JSONparse(s) ==
  CASE s = "null" ->
         [ok |-> TRUE, isNull |-> TRUE, type |-> Undefined, data |-> Undefined]
    [] s = "{}" ->
         [ok |-> TRUE, isNull |-> FALSE, type |-> Undefined, data |-> Undefined]
    [] s = "{\"type\":\"OTHER\",\"data\":\"x\"}" ->
         [ok |-> TRUE, isNull |-> FALSE, type |-> "OTHER", data |-> "x"]
    [] s = "{\"type\":\"PROCESS_ORDER\",\"data\":\"o1\"}" ->
         [ok |-> TRUE, isNull |-> FALSE, type |-> "PROCESS_ORDER", data |-> "o1"]
    [] s = "{\"type\":\"PROCESS_ORDER\",\"data\":\"o2\"}" ->
         [ok |-> TRUE, isNull |-> FALSE, type |-> "PROCESS_ORDER", data |-> "o2"]
    [] s = "{\"type\":\"SEND_EMAIL\",\"data\":\"e1\"}" ->
         [ok |-> TRUE, isNull |-> FALSE, type |-> "SEND_EMAIL", data |-> "e1"]
    [] OTHER ->
         [ok |-> FALSE, isNull |-> FALSE, type |-> Undefined, data |-> Undefined]

\* ---- state ----------------------------------------------------------------
VARIABLES
  body,            \* queue: the body of each message
  qstate,          \* queue: "visible" | "inflight" | "deleted" | "dlq"
  receiveCount,    \* queue: deliveries of each message so far
  history,         \* per message, its outcome in each delivery so far
  orderService,    \* the module-level OrderService singleton (line 6)
  pc,              \* per invocation: where sqsHandler is
  Records,         \* per invocation: event.Records
  tasks,           \* per invocation: state of each map callback
  failedMessages,  \* per invocation: the array of line 17
  processed,       \* per invocation: messageIds logged at line 39
  calls,           \* per invocation: processOrder/sendEmail calls made
  threw,           \* per invocation: indexes whose try block threw
  access,          \* per invocation: variables written by each callback
  reported,        \* per invocation: failedMessages logged at line 48
  error            \* per invocation: the count in the Error of line 49

vars == <<body, qstate, receiveCount, history, orderService, pc, Records,
          tasks, failedMessages, processed, calls, threw, access, reported,
          error>>

qvars == <<body, qstate, receiveCount, history>>
hvars == <<Records, tasks, failedMessages, processed, calls, threw, access,
           reported, error>>

\* ---- helpers --------------------------------------------------------------
Range(f) == {f[i] : i \in DOMAIN f}

Min(S) == CHOOSE x \in S : \A y \in S : x <= y

RECURSIVE SortedSeq(_)
SortedSeq(S) == IF S = {} THEN <<>> ELSE <<Min(S)>> \o SortedSeq(S \ {Min(S)})

\* ---- the async helpers of lines 55-63 ------------------------------------
\* Variant: processOrder records every order it is given.
processOrderCounting(data, svc) ==
  [settle |-> "fulfilled", svc |-> IF Len(svc) < 3 THEN Append(svc, data) ELSE svc]

\* processOrder(data): logs and returns; the promise it returns is fulfilled
\* and the OrderService singleton is left as it was.
processOrder(data, svc) == [settle |-> "fulfilled", svc |-> svc]

\* sendEmail(data): logs and returns.
sendEmail(data, svc) == [settle |-> "fulfilled", svc |-> svc]

\* ---- the callback of event.Records.map (lines 21-44) ----------------------
\* Variant: the array is declared at module level, so an invocation starts
\* with what another invocation has collected.
SharedFailedMessages(inv, all) ==
  IF \E j \in DOMAIN all : j # inv
    THEN all[CHOOSE j \in DOMAIN all : j # inv]
    ELSE <<>>

\* line 17: each invocation starts with its own empty array.
NewFailedMessages(inv, all) == <<>>

\* Variants of the catch block: one that only logs, one that records the
\* messageId twice, one that replaces the array.
CatchBlockSwallow(failed, messageId) == failed
CatchBlockTwice(failed, messageId) == failed \o <<messageId, messageId>>
CatchBlockReset(failed, messageId) == <<messageId>>

\* lines 40-43: the catch block records the record's messageId.
CatchBlock(failed, messageId) == Append(failed, messageId)

\* line 39: the record is logged as processed.
MarkProcessed(done, messageId) == done \cup {messageId}

\* The variables a callback writes: failedMessages lives in the scope of the
\* invocation (scope 0), body in the callback's own block scope (scope i).
WriteFailed(i) == [task |-> i, var |-> "failedMessages", scope |-> 0]
WriteBody(i) == [task |-> i, var |-> "body", scope |-> i]

\* The catch block, run for callback i of an invocation in state st.
Caught(st, r, i) ==
  [st EXCEPT !.failed = CatchBlock(@, r.messageId),
             !.threw = @ \cup {i},
             !.tasks[i] = "settled",
             !.access = @ \cup {WriteFailed(i)},
             !.hist[r.messageId] = Append(@, "failed")]

\* Line 39 and the normal end of callback i.
Succeeded(st, r, i) ==
  [st EXCEPT !.done = MarkProcessed(@, r.messageId),
             !.tasks[i] = "settled",
             !.hist[r.messageId] = Append(@, "processed")]

\* A call of one of the two helpers from the switch: the helper's body runs
\* at once (it has no await of its own), then the callback suspends at the
\* await of line 30 / 33 until the event loop resumes it.
Called(st, r, i, fn, data, res) ==
  [st EXCEPT !.calls = Append(@, [fn |-> fn, data |-> data,
                                  messageId |-> r.messageId]),
             !.svc = res.svc,
             !.tasks[i] = IF res.settle = "fulfilled" THEN "awaitOk"
                                                      ELSE "awaitErr"]

\* Variant: the switch has no SEND_EMAIL case.
DispatchNoEmail(type) ==
  CASE type = "PROCESS_ORDER" -> "processOrder"
    [] OTHER -> "default"

\* The switch of lines 28-37: which branch a message type selects.
Dispatch(type) ==
  CASE type = "PROCESS_ORDER" -> "processOrder"
    [] type = "SEND_EMAIL" -> "sendEmail"
    [] OTHER -> "default"

\* Variant: the default branch throws.
DefaultCaseThrows(st, r, i) == Caught(st, r, i)

\* lines 35-36 and 39: the default branch warns and falls out of the switch,
\* so the record ends as processed.
DefaultCase(st, r, i) == Succeeded(st, r, i)

\* lines 22-39 up to the first await: the synchronous part of callback i.
StartTask(st, r, i) ==
  LET p == JSONparse(r.body) IN
  IF ~p.ok THEN Caught(st, r, i)                  \* SyntaxError at line 25
  ELSE LET s1 == [st EXCEPT !.access = @ \cup {WriteBody(i)}] IN
       IF p.isNull THEN Caught(s1, r, i)          \* TypeError at line 28
       ELSE IF Dispatch(p.type) = "processOrder"
              THEN Called(s1, r, i, "processOrder", p.data,
                          processOrder(p.data, s1.svc))
       ELSE IF Dispatch(p.type) = "sendEmail"
              THEN Called(s1, r, i, "sendEmail", p.data,
                          sendEmail(p.data, s1.svc))
       ELSE DefaultCase(s1, r, i)

\* event.Records.map (line 21): the callbacks are started in array order and
\* each runs to its first await before the next one starts.
RECURSIVE RunMap(_, _, _)
RunMap(st, recs, i) ==
  IF i > Len(recs) THEN st ELSE RunMap(StartTask(st, recs[i], i), recs, i + 1)

\* Variant: the await of line 20 resolves with the first settled callback.
AnySettled(ts) == ts = <<>> \/ \E i \in DOMAIN ts : ts[i] = "settled"

\* Promise.allSettled (line 20) resolves when every callback has settled.
AllSettled(ts) == \A i \in DOMAIN ts : ts[i] = "settled"

\* Variant: the handler raises only when more than one message failed.
MustRaiseSeveral(failed) == Len(failed) > 1

\* Variant: the handler never raises.
MustRaiseNever(failed) == FALSE

\* line 47: the handler raises when the array is not empty.
MustRaise(failed) == Len(failed) > 0

\* ---- the queue ------------------------------------------------------------
\* A delivery makes the messages invisible and counts the receive.
Receive(S) ==
  /\ qstate' = [m \in Msgs |-> IF m \in S THEN "inflight" ELSE qstate[m]]
  /\ receiveCount' = [m \in Msgs |-> IF m \in S THEN receiveCount[m] + 1
                                               ELSE receiveCount[m]]

\* The handler returned: the whole batch is deleted from the queue.
Acknowledge(S) ==
  qstate' = [m \in Msgs |-> IF m \in S THEN "deleted" ELSE qstate[m]]

\* The handler raised: the whole batch becomes visible again, except the
\* messages that have used up their MaxReceive deliveries, which go to the
\* dead-letter queue.
Redrive(S) ==
  qstate' = [m \in Msgs |->
               IF m \in S
                 THEN IF receiveCount[m] >= MaxReceive THEN "dlq" ELSE "visible"
                 ELSE qstate[m]]

\* ---- initial state ----------------------------------------------------------
TypeOK ==
  /\ body \in [Msgs -> Bodies]
  /\ qstate \in [Msgs -> {"visible", "inflight", "deleted", "dlq"}]
  /\ receiveCount \in [Msgs -> 0..MaxReceive]
  /\ pc \in [Invs -> {"idle", "allSettled", "reported", "raised", "returned"}]

Init ==
  /\ body \in [Msgs -> Bodies]
  /\ qstate = [m \in Msgs |-> "visible"]
  /\ receiveCount = [m \in Msgs |-> 0]
  /\ history = [m \in Msgs |-> <<>>]
  /\ orderService = <<>>
  /\ pc = [inv \in Invs |-> "idle"]
  /\ Records = [inv \in Invs |-> <<>>]
  /\ tasks = [inv \in Invs |-> <<>>]
  /\ failedMessages = [inv \in Invs |-> <<>>]
  /\ processed = [inv \in Invs |-> {}]
  /\ calls = [inv \in Invs |-> <<>>]
  /\ threw = [inv \in Invs |-> {}]
  /\ access = [inv \in Invs |-> {}]
  /\ reported = [inv \in Invs |-> <<>>]
  /\ error = [inv \in Invs |-> 0]

\* ---- actions --------------------------------------------------------------
\* The queue delivers the batch S to an idle invocation slot; sqsHandler runs
\* lines 11-21 and the synchronous part of every callback, then waits at the
\* await of line 20.
Invoke(inv, S) ==
  /\ pc[inv] = "idle"
  /\ \A m \in S : qstate[m] = "visible"
  /\ Receive(S)
  /\ LET recs == [k \in 1..Cardinality(S) |->
                    [messageId |-> SortedSeq(S)[k],
                     body |-> body[SortedSeq(S)[k]]]]
         st0 == [failed |-> NewFailedMessages(inv, failedMessages),
                 done |-> {}, calls |-> <<>>, threw |-> {}, access |-> {},
                 svc |-> orderService, hist |-> history,
                 tasks |-> [k \in 1..Cardinality(S) |-> "pending"]]
         st == RunMap(st0, recs, 1)
     IN /\ Records' = [Records EXCEPT ![inv] = recs]
        /\ tasks' = [tasks EXCEPT ![inv] = st.tasks]
        /\ failedMessages' = [failedMessages EXCEPT ![inv] = st.failed]
        /\ processed' = [processed EXCEPT ![inv] = st.done]
        /\ calls' = [calls EXCEPT ![inv] = st.calls]
        /\ threw' = [threw EXCEPT ![inv] = st.threw]
        /\ access' = [access EXCEPT ![inv] = st.access]
        /\ orderService' = st.svc
        /\ history' = st.hist
  /\ pc' = [pc EXCEPT ![inv] = "allSettled"]
  /\ UNCHANGED <<body, reported, error>>

\* The event loop resumes callback i after its await (line 30 / 33): on a
\* fulfilled promise it runs line 39, on a rejected one the catch block.
ResumeTask(inv, i) ==
  /\ pc[inv] = "allSettled"
  /\ i \in DOMAIN tasks[inv]
  /\ tasks[inv][i] \in {"awaitOk", "awaitErr"}
  /\ LET r == Records[inv][i]
         st0 == [failed |-> failedMessages[inv], done |-> processed[inv],
                 calls |-> calls[inv], threw |-> threw[inv],
                 access |-> access[inv], svc |-> orderService,
                 hist |-> history, tasks |-> tasks[inv]]
         st == IF tasks[inv][i] = "awaitOk" THEN Succeeded(st0, r, i)
                                            ELSE Caught(st0, r, i)
     IN /\ tasks' = [tasks EXCEPT ![inv] = st.tasks]
        /\ failedMessages' = [failedMessages EXCEPT ![inv] = st.failed]
        /\ processed' = [processed EXCEPT ![inv] = st.done]
        /\ threw' = [threw EXCEPT ![inv] = st.threw]
        /\ access' = [access EXCEPT ![inv] = st.access]
        /\ history' = st.hist
  /\ UNCHANGED <<body, qstate, receiveCount, orderService, pc, Records, calls,
                 reported, error>>

\* lines 47-48: Promise.allSettled has resolved and some message failed; the
\* failed messageIds are logged.
Report(inv) ==
  /\ pc[inv] = "allSettled"
  /\ AllSettled(tasks[inv])
  /\ MustRaise(failedMessages[inv])
  /\ reported' = [reported EXCEPT ![inv] = failedMessages[inv]]
  /\ pc' = [pc EXCEPT ![inv] = "reported"]
  /\ UNCHANGED <<qvars, orderService, Records, tasks, failedMessages,
                 processed, calls, threw, access, error>>

\* line 49: throw new Error(`Failed to process ${failedMessages.length} messages`).
Raise(inv) ==
  /\ pc[inv] = "reported"
  /\ error' = [error EXCEPT ![inv] = Len(failedMessages[inv])]
  /\ pc' = [pc EXCEPT ![inv] = "raised"]
  /\ UNCHANGED <<qvars, orderService, Records, tasks, failedMessages,
                 processed, calls, threw, access, reported>>

\* line 52: no message failed, the handler returns.
Return(inv) ==
  /\ pc[inv] = "allSettled"
  /\ AllSettled(tasks[inv])
  /\ ~MustRaise(failedMessages[inv])
  /\ pc' = [pc EXCEPT ![inv] = "returned"]
  /\ UNCHANGED <<qvars, orderService, hvars>>

\* The queue acts on the handler's result, which is all it is told: a normal
\* return or an error.  The invocation slot becomes free.
Complete(inv) ==
  /\ pc[inv] \in {"raised", "returned"}
  /\ LET S == {Records[inv][k].messageId : k \in DOMAIN Records[inv]} IN
       IF pc[inv] = "returned" THEN Acknowledge(S) ELSE Redrive(S)
  /\ pc' = [pc EXCEPT ![inv] = "idle"]
  /\ Records' = [Records EXCEPT ![inv] = <<>>]
  /\ tasks' = [tasks EXCEPT ![inv] = <<>>]
  /\ failedMessages' = [failedMessages EXCEPT ![inv] = <<>>]
  /\ processed' = [processed EXCEPT ![inv] = {}]
  /\ calls' = [calls EXCEPT ![inv] = <<>>]
  /\ threw' = [threw EXCEPT ![inv] = {}]
  /\ access' = [access EXCEPT ![inv] = {}]
  /\ reported' = [reported EXCEPT ![inv] = <<>>]
  /\ error' = [error EXCEPT ![inv] = 0]
  /\ UNCHANGED <<body, receiveCount, history, orderService>>

Next ==
  \/ \E inv \in Invs, S \in SUBSET Msgs : Invoke(inv, S)
  \/ \E inv \in Invs, i \in 1..NumMsgs : ResumeTask(inv, i)
  \/ \E inv \in Invs : Report(inv)
  \/ \E inv \in Invs : Raise(inv)
  \/ \E inv \in Invs : Return(inv)
  \/ \E inv \in Invs : Complete(inv)

Spec == Init /\ [][Next]_vars

\* ---- vocabulary of the properties -------------------------------------------
Finished(inv) == pc[inv] \in {"reported", "raised", "returned"}

Ids(inv) == {Records[inv][k].messageId : k \in DOMAIN Records[inv]}

\* The records of a batch whose processing throws, read off the record alone:
\* the body is not JSON, or it is the JSON null.
Throws(r) == ~JSONparse(r.body).ok \/ JSONparse(r.body).isNull

ThrowingIds(recs) == {recs[k].messageId : k \in {j \in DOMAIN recs : Throws(recs[j])}}

\* The records whose message has a type the switch does not know.
UnknownType(r) ==
  /\ JSONparse(r.body).ok
  /\ ~JSONparse(r.body).isNull
  /\ JSONparse(r.body).type \notin {"PROCESS_ORDER", "SEND_EMAIL"}

CallsFor(inv, id) == {k \in DOMAIN calls[inv] : calls[inv][k].messageId = id}

\* ---- C1 -------------------------------------------------------------------
\* C1: when sqsHandler has finished, every callback of the batch has run to
\* its end, and every record whose try block did not throw has been processed
\* to completion (line 39), whatever its siblings did.
C1_SiblingsComplete ==
  \A inv \in Invs :
    Finished(inv) =>
      \A i \in DOMAIN Records[inv] :
        /\ tasks[inv][i] = "settled"
        /\ i \notin threw[inv] => Records[inv][i].messageId \in processed[inv]

C1_Witness ==
  \E inv \in Invs :
    /\ Finished(inv)
    /\ Len(Records[inv]) = 3
    /\ threw[inv] = {1}
    /\ Cardinality(processed[inv]) = 2
    /\ Len(calls[inv]) = 2

\* ---- C3 -------------------------------------------------------------------
\* C3: when sqsHandler has raised or returned, the messages outside the
\* throwing subset F are exactly those marked processed, the messages of F are
\* exactly those reported as failed, and the error is raised only after all
\* callbacks have settled and the failed identifiers have been reported.
C3_PartialFailureReported ==
  \A inv \in Invs :
    /\ pc[inv] \in {"raised", "returned"} =>
         /\ processed[inv] = Ids(inv) \ ThrowingIds(Records[inv])
         /\ Range(reported[inv]) = ThrowingIds(Records[inv])
    /\ (pc[inv] = "raised" \/ error[inv] # 0) =>
         /\ AllSettled(tasks[inv])
         /\ reported[inv] # <<>>
         /\ reported[inv] = failedMessages[inv]

C3_Witness ==
  \E inv \in Invs :
    /\ pc[inv] = "raised"
    /\ Len(Records[inv]) = 3
    /\ reported[inv] = <<2>>
    /\ processed[inv] = {1, 3}

\* ---- C4 -------------------------------------------------------------------
\* C4: a record whose message type is not PROCESS_ORDER or SEND_EMAIL (no type
\* included) is never among the failed messages, never throws, never reaches
\* processOrder or sendEmail, and ends as processed; a batch made only of such
\* records never makes sqsHandler raise.
C4_UnknownTypeAcknowledged ==
  \A inv \in Invs :
    /\ \A i \in DOMAIN Records[inv] :
         UnknownType(Records[inv][i]) =>
           /\ Records[inv][i].messageId \notin Range(failedMessages[inv])
           /\ i \notin threw[inv]
           /\ CallsFor(inv, Records[inv][i].messageId) = {}
           /\ Records[inv][i].messageId \in processed[inv]
    /\ (\A i \in DOMAIN Records[inv] : UnknownType(Records[inv][i])) =>
         /\ pc[inv] \notin {"reported", "raised"}
         /\ error[inv] = 0

C4_Witness ==
  \E inv \in Invs :
    /\ pc[inv] = "returned"
    /\ Len(Records[inv]) = 2
    /\ Records[inv][1].body = "{}"
    /\ Records[inv][2].body = "{\"type\":\"OTHER\",\"data\":\"x\"}"
    /\ processed[inv] = Ids(inv)

\* ---- C7 -------------------------------------------------------------------
\* C7: the failed-message list and the outcome of an invocation are functions
\* of its own batch: the list never holds an identifier of another
\* invocation's batch, ends as the throwing records of its own batch, and the
\* invocation returns exactly when its own batch has no throwing record.
C7_InvocationsIndependent ==
  \A inv \in Invs :
    /\ Range(failedMessages[inv]) \subseteq ThrowingIds(Records[inv])
    /\ Finished(inv) =>
         /\ Range(failedMessages[inv]) = ThrowingIds(Records[inv])
         /\ pc[inv] = "returned" <=> ThrowingIds(Records[inv]) = {}
    /\ pc[inv] = "raised" => error[inv] = Cardinality(ThrowingIds(Records[inv]))

C7_Witness ==
  \E i, j \in Invs :
    /\ i # j
    /\ pc[i] = "raised" /\ Records[i] # <<>>
    /\ pc[j] = "returned" /\ Records[j] # <<>>

\* ---- C9 -------------------------------------------------------------------
\* C9: a PROCESS_ORDER record has exactly one call, to processOrder with its
\* own data; a SEND_EMAIL record has exactly one call, to sendEmail with its
\* own data; any other record has no call.
C9_DispatchByType ==
  \A inv \in Invs :
    \A i \in DOMAIN Records[inv] :
      LET r == Records[inv][i]
          p == JSONparse(r.body)
          cs == CallsFor(inv, r.messageId)
      IN IF p.ok /\ ~p.isNull /\ p.type = "PROCESS_ORDER"
           THEN /\ Cardinality(cs) = 1
                /\ \A k \in cs : calls[inv][k].fn = "processOrder"
                                 /\ calls[inv][k].data = p.data
         ELSE IF p.ok /\ ~p.isNull /\ p.type = "SEND_EMAIL"
           THEN /\ Cardinality(cs) = 1
                /\ \A k \in cs : calls[inv][k].fn = "sendEmail"
                                 /\ calls[inv][k].data = p.data
         ELSE cs = {}

C9_Witness ==
  \E inv \in Invs :
    /\ Finished(inv)
    /\ Len(calls[inv]) = 3
    /\ {calls[inv][k].data : k \in 1..3} = {"o1", "o2", "e1"}
    /\ {calls[inv][k].fn : k \in 1..3} = {"processOrder", "sendEmail"}

\* ---- C10 ------------------------------------------------------------------
\* C10: lines 47-52 run only when every callback has settled; failedMessages
\* then holds the messageId of each record whose try block threw, once each,
\* and every record is processed or failed but not both.
C10_FailedExactlyThrown ==
  \A inv \in Invs :
    Finished(inv) =>
      /\ AllSettled(tasks[inv])
      /\ Len(failedMessages[inv]) = Cardinality(threw[inv])
      /\ Range(failedMessages[inv]) =
           {Records[inv][i].messageId : i \in threw[inv]}
      /\ processed[inv] \cap Range(failedMessages[inv]) = {}
      /\ processed[inv] \cup Range(failedMessages[inv]) = Ids(inv)

C10_Witness ==
  \E inv \in Invs :
    /\ Finished(inv)
    /\ Len(failedMessages[inv]) = 2
    /\ Cardinality(processed[inv]) = 1
    /\ Len(calls[inv]) = 1

\* ---- C2 -------------------------------------------------------------------
\* C2: only failed messages go back to the queue: a message that is visible
\* again (or dead-lettered) after a delivery is one whose last processing
\* failed, never one that was processed successfully next to a failing sibling.
C2_OnlyFailedRedelivered ==
  \A m \in Msgs :
    (qstate[m] \in {"visible", "dlq"} /\ history[m] # <<>>) =>
      history[m][Len(history[m])] = "failed"

\* ---- C6 -------------------------------------------------------------------
\* C6 as stated: no variable is written by two callbacks of one invocation.
C6_NoSharedWrites ==
  \A inv \in Invs :
    \A a, b \in access[inv] :
      (a.var = b.var /\ a.scope = b.scope) => a.task = b.task

\* C6 amended: the one variable that sibling callbacks share is
\* failedMessages, and a callback touches it only to append the messageId of
\* its own record, once, when its try block threw; the entries already there
\* are never changed.
C6_SharedOnlyFailedMessages ==
  /\ [](\A inv \in Invs :
          \A a, b \in access[inv] :
            (a.var = b.var /\ a.scope = b.scope /\ a.task # b.task) =>
              a.var = "failedMessages")
  /\ [][\A inv \in Invs :
          pc'[inv] # "idle" =>
            LET f == failedMessages[inv]
                g == failedMessages'[inv]
                new == threw'[inv] \ threw[inv]
            IN /\ Len(g) = Len(f) + Cardinality(new)
               /\ SubSeq(g, 1, Len(f)) = f
               /\ {g[k] : k \in (Len(f) + 1)..Len(g)} =
                    {Records'[inv][i].messageId : i \in new}]_vars

C6_Witness ==
  \E inv \in Invs :
    \E a, b \in access[inv] :
      /\ a.var = "failedMessages" /\ b.var = "failedMessages"
      /\ a.task # b.task
      /\ Len(failedMessages[inv]) = 2

\* ---- C8 -------------------------------------------------------------------
\* C8: every delivery of a message gives it the outcome of its first delivery,
\* and a step that delivers only messages that were delivered before leaves
\* the OrderService state as it was.
C8_IdempotentRedelivery ==
  /\ [](\A m \in Msgs :
          \A k \in DOMAIN history[m] : history[m][k] = history[m][1])
  /\ [][(\A m \in Msgs :
           receiveCount'[m] > receiveCount[m] => receiveCount[m] >= 1) =>
        orderService' = orderService]_vars

C8_Witness ==
  \E m \in Msgs :
    /\ history[m] = <<"processed", "processed">>
    /\ Dispatch(JSONparse(body[m]).type) = "processOrder"

\* ---- C5 -------------------------------------------------------------------
\* The queue delivers every visible message again and again (at-least-once
\* delivery); the event loop runs every resumable callback and the handler's
\* continuation; the queue acts on every result.
DeliverMsg(m) == \E inv \in Invs, S \in SUBSET Msgs : m \in S /\ Invoke(inv, S)

Fairness ==
  /\ \A m \in Msgs : SF_vars(DeliverMsg(m))
  /\ \A inv \in Invs :
       /\ WF_vars(\E i \in 1..NumMsgs : ResumeTask(inv, i))
       /\ WF_vars(Report(inv))
       /\ WF_vars(Raise(inv))
       /\ WF_vars(Return(inv))
       /\ WF_vars(Complete(inv))

\* The same system over messages that either fail on every delivery or are
\* orders, with the fairness above.
LiveInit ==
  /\ Init
  /\ body \in [Msgs -> {"{bad", "{\"type\":\"PROCESS_ORDER\",\"data\":\"o1\"}"}]

LiveSpec == LiveInit /\ [][Next]_vars /\ Fairness

FailsAlways(m) ==
  /\ history[m] # <<>>
  /\ \A k \in DOMAIN history[m] : history[m][k] = "failed"

\* C5: sqsHandler never returns normally from a batch in which a message
\* failed; a message that fails on every delivery is never acknowledged, is
\* delivered at most MaxReceive times, and eventually is in the dead-letter
\* queue, having been delivered MaxReceive times.
C5_FailedReachDeadLetter ==
  /\ [](\A inv \in Invs : pc[inv] = "returned" => threw[inv] = {})
  /\ [](\A m \in Msgs :
          FailsAlways(m) => /\ qstate[m] # "deleted"
                            /\ receiveCount[m] <= MaxReceive)
  /\ [](\A m \in Msgs : qstate[m] = "dlq" => receiveCount[m] = MaxReceive)
  /\ \A m \in Msgs : FailsAlways(m) ~> (qstate[m] = "dlq")

C5_Witness ==
  \E m \in Msgs :
    /\ FailsAlways(m)
    /\ qstate[m] = "dlq"
    /\ Len(history[m]) = MaxReceive

\* ---- C11 ------------------------------------------------------------------
\* C11: when sqsHandler has ended it has returned exactly when no try block
\* of the batch threw, and otherwise has raised an error whose count is the
\* number of records that threw; an empty batch, and a batch of unknown
\* types only, end in a return.
C11_ReturnsIffNoFailure ==
  \A inv \in Invs :
    /\ pc[inv] \in {"raised", "returned"} =>
         /\ pc[inv] = "returned" <=> threw[inv] = {}
         /\ pc[inv] = "raised" => error[inv] = Cardinality(threw[inv])
         /\ pc[inv] = "returned" => error[inv] = 0
    /\ (AllSettled(tasks[inv]) /\ pc[inv] = "allSettled" /\ threw[inv] # {}) =>
         ~ENABLED Return(inv)
    /\ (Records[inv] = <<>> \/
        \A i \in DOMAIN Records[inv] : UnknownType(Records[inv][i])) =>
         pc[inv] \notin {"reported", "raised"}

C11_Witness ==
  \E i, j \in Invs :
    /\ pc[i] = "returned" /\ Records[i] = <<>>
    /\ pc[j] = "raised" /\ error[j] = 2 /\ Len(Records[j]) = 3

\* ---- C12 ------------------------------------------------------------------
\* The bodies that cannot be read as a message object: text that is not JSON,
\* and the JSON null.
Unreadable(b) == b \in {"{bad", "null"}

\* C12: a record with an unreadable body is among the failed messages and is
\* not processed, no call to processOrder or sendEmail is made for it, the
\* failed messages hold no sibling whose body is readable, every sibling has
\* run to its end when the handler ends, and the handler does not return
\* normally.
C12_UnreadableBodyFailsAlone ==
  \A inv \in Invs :
    \A i \in DOMAIN Records[inv] :
      Unreadable(Records[inv][i].body) =>
        /\ Records[inv][i].messageId \in Range(failedMessages[inv])
        /\ Records[inv][i].messageId \notin processed[inv]
        /\ CallsFor(inv, Records[inv][i].messageId) = {}
        /\ pc[inv] # "returned"
        /\ \A j \in DOMAIN Records[inv] :
             ~Unreadable(Records[inv][j].body) =>
               /\ Records[inv][j].messageId \notin Range(failedMessages[inv])
               /\ tasks[inv][j] # "pending"
               /\ Finished(inv) => Records[inv][j].messageId \in processed[inv]

C12_Witness ==
  \E inv \in Invs :
    /\ pc[inv] = "raised"
    /\ Len(Records[inv]) = 3
    /\ Records[inv][1].body = "{bad"
    /\ Records[inv][2].body = "null"
    /\ failedMessages[inv] = <<1, 2>>
    /\ processed[inv] = {3}
    /\ Len(calls[inv]) = 1

\* ---- C13 ------------------------------------------------------------------
\* C13: a message whose processing succeeded in every delivery is never moved
\* to the dead-letter queue, whatever its siblings in the batches did.
C13_SuccessfulNeverDeadLettered ==
  \A m \in Msgs :
    (history[m] # <<>> /\ \A k \in DOMAIN history[m] : history[m][k] = "processed")
      => qstate[m] # "dlq"

====
